---- MODULE Spec2Model ----
(***************************************************************************)
(* A model of app.py: a Streamlit chat page.  The host framework runs      *)
(* main() once per interaction (one "pass"); st.session_state and the      *)
(* values of the widgets survive from pass to pass.  One action of the     *)
(* model is one step of a pass, in the order main() performs them.         *)
(*                                                                         *)
(* Texts are sequences of symbols, so that splitting on ",", parsing an    *)
(* integer and "contains" are computed, not assumed.  A literal of the     *)
(* source that is never taken apart is written as a one-symbol text.       *)
(***************************************************************************)
EXTENDS Integers, Sequences, FiniteSets, TLC

VARIABLES
    env,            \* os.environ after load_dotenv(): name -> [set, val]
    session_state,  \* st.session_state: a function on the keys present
    text_input,     \* value held by the widget st.text_input(key="input")
    selected,       \* option the user picked in the selectbox, 0 = no change
    clicked,        \* the clear button was pressed and not yet read
    rendered,       \* widgets drawn by the last/current pass
    chat,           \* chat messages drawn by the current pass
    errors,         \* st.error texts shown by the current pass
    pc,             \* position of the pass inside main()
    prompt,         \* local of main()
    response,       \* local of main()
    requests,       \* requests in flight to the external API
    calls,          \* client.messages.create calls made by the current pass
    fault,          \* exception that escaped main() in the current pass
    event,          \* what triggered the current pass
    outcome,        \* how generate_llm_response returned in the current pass
    cause,          \* description of the failure caught in the current pass
    selectbox,      \* the selectbox as last drawn: index=, value, option shown
    start,          \* Conversation when the current pass began
    subs,           \* texts submitted so far, while only submissions happened
    replies,        \* what the Completion Client returned for them
    onlySubmits     \* every interaction so far was a text submission

vars == <<env, session_state, text_input, selected, clicked, rendered, chat,
          errors, pc, prompt, response, requests, calls, fault, event,
          outcome, cause, selectbox, start, subs, replies, onlySubmits>>

(***************************************************************************)
(* Bounds of the model.                                                    *)
(***************************************************************************)
MaxTurns == 2       \* turns (user + assistant) a Conversation may hold
MaxSegments == 2    \* content segments in a response of the external API

(***************************************************************************)
(* Texts.                                                                  *)
(***************************************************************************)
Empty == <<>>
Opus == <<"claude-3-opus-20240229">>
Sonnet == <<"claude-3-sonnet-20240229">>
Haiku == <<"claude-3-haiku-20240307">>
KeyRequiredText == <<"API key is required to use the model.">>
KeyNotFoundText == <<"API key not found. Please set ANTHROPIC_API_KEY in your .env file.">>
GenericErrorText == <<"An error occurred while generating the response.">>
ErrorPrefix == <<"Error generating response: ">>
IndexErrorText == <<"list index out of range">>

Texts == { <<"hello">>, <<"bye">> }             \* what the user may type
Segments == { <<"hi there">> }                   \* what the API may answer
Failures == { <<"timeout">>, <<"overloaded">> }  \* str(e) of what it may raise

\* t occurs in s as a contiguous part
Contains(s, t) ==
    \E i \in 0..(Len(s) - Len(t)) : SubSeq(s, i + 1, i + Len(t)) = t

(***************************************************************************)
(* The process environment.  [set |-> FALSE] is an unset variable.         *)
(***************************************************************************)
Unset == [set |-> FALSE, val |-> Empty]
Val(s) == [set |-> TRUE, val |-> s]

EnvKeys == { Unset, Val(Empty), Val(<<"k">>) }
EnvModels == { Unset, Val(<<"a">>), Val(<<"b">>), Val(<<"c">>) }
EnvLists == { Unset, Val(Empty), Val(<<"a", ",", "b">>), Val(<<"b">>) }
EnvTokens == { Unset, Val(<<"5">>), Val(<<"1", "2">>), Val(<<"0">>),
               Val(<<"-", "5">>), Val(<<"x">>), Val(Empty) }

\* os.getenv(name, default)
getenv(name, default) == IF env[name].set THEN env[name].val ELSE default

\* str.split(','): the parts between the commas, empty parts included
RECURSIVE split(_)
split(s) ==
    IF \A i \in 1..Len(s) : s[i] # ","
    THEN << s >>
    ELSE LET i == CHOOSE k \in 1..Len(s) :
                      s[k] = "," /\ \A j \in 1..(k - 1) : s[j] # ","
         IN  << SubSeq(s, 1, i - 1) >> \o split(SubSeq(s, i + 1, Len(s)))

Digits == { "0", "1", "2", "3", "4", "5", "6", "7", "8", "9" }
DigitVal(c) ==
    CASE c = "0" -> 0 [] c = "1" -> 1 [] c = "2" -> 2 [] c = "3" -> 3
      [] c = "4" -> 4 [] c = "5" -> 5 [] c = "6" -> 6 [] c = "7" -> 7
      [] c = "8" -> 8 [] c = "9" -> 9

RECURSIVE Decimal(_)
Decimal(s) ==
    IF s = Empty THEN 0
    ELSE 10 * Decimal(SubSeq(s, 1, Len(s) - 1)) + DigitVal(s[Len(s)])

\* int(str): an optional sign and at least one digit, else ValueError
\* (the texts of EnvTokens hold no blanks and no underscores)
IntBody(s) == IF s # Empty /\ s[1] \in {"-", "+"} THEN Tail(s) ELSE s
IntParses(s) ==
    /\ IntBody(s) # Empty
    /\ \A i \in 1..Len(IntBody(s)) : IntBody(s)[i] \in Digits
int(s) ==
    IF s # Empty /\ s[1] = "-" THEN 0 - Decimal(IntBody(s))
    ELSE Decimal(IntBody(s))

(***************************************************************************)
(* initialize_session_state                                                *)
(***************************************************************************)
DefaultMaxTokens == 1000
TemperatureTenths == 7      \* 0.7, in tenths

DefaultModel == getenv("DEFAULT_MODEL", Opus)

\* int(os.getenv('DEFAULT_MAX_TOKENS', 1000)) raises ValueError
MaxTokensRaises ==
    env["DEFAULT_MAX_TOKENS"].set /\ ~IntParses(env["DEFAULT_MAX_TOKENS"].val)

MaxTokensValue ==
    IF env["DEFAULT_MAX_TOKENS"].set
    THEN int(env["DEFAULT_MAX_TOKENS"].val)
    ELSE DefaultMaxTokens

NewModelConfig ==
    [model |-> DefaultModel,
     temperature |-> TemperatureTenths,
     max_tokens |-> MaxTokensValue]

Has(key) == key \in DOMAIN session_state

\* st.session_state.key = value
Set(state, key, value) ==
    [k \in DOMAIN state \cup {key} |-> IF k = key THEN value ELSE state[k]]

WithMessages(state) ==
    IF "messages" \in DOMAIN state THEN state ELSE Set(state, "messages", <<>>)

\* the assignment without its "not in st.session_state" test
WithModelConfig_Reset(state) == Set(state, "model_config", NewModelConfig)

WithModelConfig(state) ==
    IF "model_config" \in DOMAIN state THEN state
    ELSE Set(state, "model_config", NewModelConfig)

messages == IF Has("messages") THEN session_state["messages"] ELSE <<>>
model_config == session_state["model_config"]

\* the variables a step inside a pass never touches
PassFrame == UNCHANGED <<env, text_input, event, start, onlySubmits, subs>>

initialize_session_state ==
    /\ pc = "init"
    /\ IF ~Has("model_config") /\ MaxTokensRaises
       THEN /\ session_state' = WithMessages(session_state)
            /\ fault' = "ValueError: int()"
            /\ pc' = "crashed"
       ELSE /\ session_state' = WithModelConfig(WithMessages(session_state))
            /\ fault' = fault
            /\ pc' = "sidebar"
    /\ PassFrame
    /\ UNCHANGED <<selected, clicked, rendered, chat, errors, prompt, response,
                   requests, calls, outcome, cause, selectbox, replies>>

(***************************************************************************)
(* sidebar_config                                                          *)
(***************************************************************************)
FallbackModels == << Opus, Sonnet, Haiku >>

model_options ==
    LET parts == split(getenv("AVAILABLE_MODELS", Empty))
    IN  IF parts = <<>> \/ parts = << Empty >> THEN FallbackModels ELSE parts

InList(list, x) == \E i \in 1..Len(list) : list[i] = x

\* list.index(x): the first position of x (from 1); ValueError when absent
index(list, x) ==
    CHOOSE i \in 1..Len(list) :
        list[i] = x /\ \A j \in 1..(i - 1) : list[j] # x

\* a selectbox drawn without index=: the first option is pre-selected
SelectboxIndex_First(options, model) == 1

\* the index=... argument of st.sidebar.selectbox
SelectboxIndex(options, model) == index(options, model)

sidebar_config ==
    /\ pc = "sidebar"
    /\ LET model == model_config.model
       IN  IF ~InList(model_options, model)
           THEN /\ fault' = "ValueError: not in list"
                /\ pc' = "crashed"
                /\ UNCHANGED <<session_state, selectbox, rendered, selected>>
           ELSE LET i == SelectboxIndex(model_options, model)
                    value == IF selected # 0 THEN model_options[selected]
                             ELSE model_options[i]
                IN  /\ selectbox' = [index |-> i, value |-> value,
                                      at |-> IF selected # 0 THEN selected
                                             ELSE i]
                    /\ session_state' =
                         Set(session_state, "model_config",
                             [model_config EXCEPT !.model = value])
                    /\ rendered' = rendered \cup {"selectbox"}
                    /\ selected' = 0
                    /\ fault' = fault
                    /\ pc' = "history"
    /\ PassFrame
    /\ UNCHANGED <<clicked, chat, errors, prompt, response, requests, calls,
                   outcome, cause, replies>>

(***************************************************************************)
(* display_chat_history                                                    *)
(***************************************************************************)
\* a pass that draws no history
display_chat_history_Skip ==
    /\ pc = "history"
    /\ pc' = "input"
    /\ UNCHANGED <<env, text_input, event, start, onlySubmits, subs>>
    /\ UNCHANGED <<session_state, selected, clicked, rendered, chat, errors,
                   prompt, response, requests, calls, fault, outcome, cause,
                   selectbox, replies>>

display_chat_history ==
    /\ pc = "history"
    /\ chat' = chat \o messages
    /\ pc' = "input"
    /\ PassFrame
    /\ UNCHANGED <<session_state, selected, clicked, rendered, errors, prompt,
                   response, requests, calls, fault, outcome, cause, selectbox,
                   replies>>

(***************************************************************************)
(* main: the text input and the user message                               *)
(***************************************************************************)
\* every message tagged "user"
Message_AlwaysUser(role, content) == [role |-> "user", content |-> content]

Message(role, content) == [role |-> role, content |-> content]

\* an assignment in place of the append: the list holds the last message only
AppendMessage_Assign(state, message) == Set(state, "messages", << message >>)

\* st.session_state.messages.append(message)
AppendMessage(state, message) ==
    Set(state, "messages", Append(state["messages"], message))

chat_input ==
    /\ pc = "input"
    /\ prompt' = text_input
    /\ rendered' = rendered \cup {"text_input"}
    /\ IF text_input # Empty
       THEN /\ session_state' =
                 AppendMessage(session_state, Message("user", text_input))
            /\ chat' = Append(chat, Message("user", text_input))
            /\ pc' = "generate"
       ELSE /\ UNCHANGED <<session_state, chat>>
            /\ pc' = "button"
    /\ PassFrame
    /\ UNCHANGED <<selected, clicked, errors, response, requests, calls, fault,
                   outcome, cause, selectbox, replies>>

(***************************************************************************)
(* generate_llm_response                                                   *)
(***************************************************************************)
\* "if api_key is None": an empty credential passes the check
KeyMissing_NoneOnly(api_key) == ~api_key.set

\* "if not api_key": None or the empty string
KeyMissing(api_key) == ~api_key.set \/ api_key.val = Empty

\* a request that carries the prompt alone
Request_PromptOnly ==
    [model |-> session_state["model_config"].model,
     max_tokens |-> session_state["model_config"].max_tokens,
     temperature |-> session_state["model_config"].temperature,
     messages |-> << [role |-> "user", content |-> prompt] >>]

\* a request that names the configured default model
Request_DefaultModel ==
    [model |-> getenv("DEFAULT_MODEL", Opus),
     max_tokens |-> session_state["model_config"].max_tokens,
     temperature |-> session_state["model_config"].temperature,
     messages |-> session_state["messages"]]

\* the request handed to client.messages.create
Request ==
    [model |-> model_config.model,
     max_tokens |-> model_config.max_tokens,
     temperature |-> model_config.temperature,
     messages |-> [i \in 1..Len(messages) |->
                     [role |-> messages[i].role,
                      content |-> messages[i].content]]]

\* the text st.error shows for a caught exception e
ErrorShown(e) == ErrorPrefix \o e

\* returning the text that st.error shows
ErrorResponse_Described(e) == ErrorShown(e)

\* the value returned for a caught exception e
ErrorResponse(e) == GenericErrorText

\* record what the Completion Client returned, while only submissions happened
Returned(text) == IF onlySubmits THEN Append(replies, text) ELSE replies

\* a client that stores the missing-credential answer itself
generate_llm_response_Stores ==
    /\ pc = "generate"
    /\ IF ~env["ANTHROPIC_API_KEY"].set \/ env["ANTHROPIC_API_KEY"].val = Empty
       THEN /\ errors' = Append(errors, KeyNotFoundText)
            /\ response' = KeyRequiredText
            /\ outcome' = "MissingCredential"
            /\ replies' = Returned(KeyRequiredText)
            /\ session_state' =
                 Set(session_state, "messages",
                     Append(session_state["messages"],
                            [role |-> "assistant", content |-> KeyRequiredText]))
            /\ pc' = "respond"
            /\ UNCHANGED <<requests, calls>>
       ELSE /\ requests' = Append(requests, Request)
            /\ calls' = calls + 1
            /\ pc' = "api"
            /\ UNCHANGED <<errors, response, outcome, replies, session_state>>
    /\ UNCHANGED <<env, text_input, event, start, onlySubmits, subs>>
    /\ UNCHANGED <<selected, clicked, rendered, chat, prompt, fault, cause,
                   selectbox>>

generate_llm_response ==
    /\ pc = "generate"
    /\ IF KeyMissing(env["ANTHROPIC_API_KEY"])
       THEN /\ errors' = Append(errors, KeyNotFoundText)
            /\ response' = KeyRequiredText
            /\ outcome' = "MissingCredential"
            /\ replies' = Returned(KeyRequiredText)
            /\ pc' = "respond"
            /\ UNCHANGED <<requests, calls>>
       ELSE /\ requests' = Append(requests, Request)
            /\ calls' = calls + 1
            /\ pc' = "api"
            /\ UNCHANGED <<errors, response, outcome, replies>>
    /\ PassFrame
    /\ UNCHANGED <<session_state, selected, clicked, rendered, chat, prompt,
                   fault, cause, selectbox>>

\* the response of the external API: content segments, or an exception
Contents ==
    UNION { [1..n -> Segments] : n \in 0..MaxSegments }

api_returns ==
    /\ pc = "api"
    /\ requests' = Tail(requests)
    /\ \/ \E content \in Contents :
            IF Len(content) > 0
            THEN /\ response' = content[1]
                 /\ outcome' = "Ok"
                 /\ replies' = Returned(content[1])
                 /\ UNCHANGED <<errors, cause>>
            ELSE /\ cause' = IndexErrorText
                 /\ errors' = Append(errors, ErrorShown(IndexErrorText))
                 /\ response' = ErrorResponse(IndexErrorText)
                 /\ outcome' = "CompletionFailed"
                 /\ replies' = Returned(ErrorResponse(IndexErrorText))
       \/ \E e \in Failures :
            /\ cause' = e
            /\ errors' = Append(errors, ErrorShown(e))
            /\ response' = ErrorResponse(e)
            /\ outcome' = "CompletionFailed"
            /\ replies' = Returned(ErrorResponse(e))
    /\ pc' = "respond"
    /\ PassFrame
    /\ UNCHANGED <<session_state, selected, clicked, rendered, chat, prompt,
                   calls, fault, selectbox>>

(***************************************************************************)
(* main: the assistant message                                             *)
(***************************************************************************)
append_response ==
    /\ pc = "respond"
    /\ chat' = Append(chat, Message("assistant", response))
    /\ session_state' =
         AppendMessage(session_state, Message("assistant", response))
    /\ pc' = "button"
    /\ PassFrame
    /\ UNCHANGED <<selected, clicked, rendered, errors, prompt, response,
                   requests, calls, fault, outcome, cause, selectbox, replies>>

(***************************************************************************)
(* main: the clear button; st.experimental_rerun() ends the pass and the   *)
(* framework starts the next one at once, with the widget values kept      *)
(***************************************************************************)
BeginPass(why) ==
    /\ pc' = "init"
    /\ event' = why
    /\ rendered' = {}
    /\ chat' = <<>>
    /\ errors' = <<>>
    /\ calls' = 0
    /\ fault' = "none"
    /\ outcome' = "none"
    /\ cause' = Empty
    /\ prompt' = Empty
    /\ response' = Empty

clear_button ==
    /\ pc = "button"
    /\ IF clicked
       THEN /\ session_state' = Set(session_state, "messages", <<>>)
            /\ clicked' = FALSE
            /\ start' = <<>>
            /\ BeginPass("rerun")
       ELSE /\ rendered' = rendered \cup {"button"}
            /\ pc' = "idle"
            /\ UNCHANGED <<session_state, clicked, start, event, chat, errors,
                           calls, fault, outcome, cause, prompt, response>>
    /\ UNCHANGED <<env, text_input, selected, requests, selectbox, subs,
                   replies, onlySubmits>>

(***************************************************************************)
(* The user, between passes.  A widget takes an interaction only when the  *)
(* last pass drew it.  TurnsLeft keeps the Conversation within MaxTurns:   *)
(* a pass appends a turn whenever the text input holds text.               *)
(***************************************************************************)
Waiting == pc \in {"idle", "crashed"}

TurnsLeft(text) == text # Empty => Len(messages) + 2 <= 2 * MaxTurns

\* the user types s into the text input and presses Enter
submit_text ==
    /\ Waiting
    /\ "text_input" \in rendered
    /\ \E s \in Texts \cup {Empty} :
         /\ s # text_input
         /\ TurnsLeft(s)
         /\ text_input' = s
         /\ subs' = IF onlySubmits /\ s # Empty THEN Append(subs, s) ELSE subs
    /\ start' = messages
    /\ BeginPass("submit")
    /\ UNCHANGED <<env, session_state, selected, clicked, requests, selectbox,
                   replies, onlySubmits>>

\* the user picks another option of the selectbox
select_model ==
    /\ Waiting
    /\ "selectbox" \in rendered
    /\ TurnsLeft(text_input)
    /\ \E i \in 1..Len(model_options) :
         /\ i # selectbox.at
         /\ selected' = i
    /\ onlySubmits' = FALSE
    /\ subs' = <<>>
    /\ replies' = <<>>
    /\ start' = messages
    /\ BeginPass("select")
    /\ UNCHANGED <<env, session_state, text_input, clicked, requests,
                   selectbox>>

\* the user presses the clear button
click_clear ==
    /\ Waiting
    /\ "button" \in rendered
    /\ TurnsLeft(text_input)
    /\ clicked' = TRUE
    /\ onlySubmits' = FALSE
    /\ subs' = <<>>
    /\ replies' = <<>>
    /\ start' = messages
    /\ BeginPass("clear")
    /\ UNCHANGED <<env, session_state, text_input, selected, requests,
                   selectbox>>

(***************************************************************************)
(* A fresh session: nothing in st.session_state, an empty text input, and  *)
(* the first pass about to run.                                            *)
(***************************************************************************)
Init ==
    /\ env \in [ANTHROPIC_API_KEY : EnvKeys,
                DEFAULT_MODEL : EnvModels,
                AVAILABLE_MODELS : EnvLists,
                DEFAULT_MAX_TOKENS : EnvTokens]
    /\ session_state = <<>>
    /\ text_input = Empty
    /\ selected = 0
    /\ clicked = FALSE
    /\ rendered = {}
    /\ chat = <<>>
    /\ errors = <<>>
    /\ pc = "init"
    /\ prompt = Empty
    /\ response = Empty
    /\ requests = <<>>
    /\ calls = 0
    /\ fault = "none"
    /\ event = "load"
    /\ outcome = "none"
    /\ cause = Empty
    /\ selectbox = [index |-> 0, value |-> Empty, at |-> 0]
    /\ start = <<>>
    /\ subs = <<>>
    /\ replies = <<>>
    /\ onlySubmits = TRUE

Next ==
    \/ initialize_session_state
    \/ sidebar_config
    \/ display_chat_history
    \/ chat_input
    \/ generate_llm_response
    \/ api_returns
    \/ append_response
    \/ clear_button
    \/ submit_text
    \/ select_model
    \/ click_clear

Spec == Init /\ [][Next]_vars

(***************************************************************************)
(* Properties.                                                             *)
(***************************************************************************)
User(text) == Message("user", text)
Assistant(text) == Message("assistant", text)

\* [user:u1, assistant:a1, ..., user:uN, assistant:aN]
Interleave(u, a) ==
    [i \in 1..(2 * Len(u)) |->
        IF i % 2 = 1 THEN User(u[(i + 1) \div 2]) ELSE Assistant(a[i \div 2])]

CredentialUnset ==
    ~env["ANTHROPIC_API_KEY"].set \/ env["ANTHROPIC_API_KEY"].val = Empty

\* C1: after N submissions from a fresh session, and nothing else, the
\* Conversation is [user:s1, assistant:r1, ..., user:sN, assistant:rN], of
\* length 2N, where ri is what the Completion Client returned for si.
C1_TwoPerSubmission ==
    (Waiting /\ onlySubmits) =>
        /\ Len(replies) = Len(subs)
        /\ Len(messages) = 2 * Len(subs)
        /\ messages = Interleave(subs, replies)

C1_HelloBye ==
    /\ pc = "idle"
    /\ onlySubmits
    /\ subs = << <<"hello">>, <<"bye">> >>
    /\ messages = << User(<<"hello">>), Assistant(<<"hi there">>),
                     User(<<"bye">>), Assistant(<<"hi there">>) >>

\* C2: once a clear request has been handled (the clear pass and the re-run
\* it asks for have both ended), the Conversation is empty.
C2_ClearEmpties ==
    (pc = "idle" /\ event = "rerun") => messages = <<>>

\* C3: with the credential unset (absent or empty) the Completion Client
\* returns the MissingCredential outcome and no call to the external API is
\* made: the call count of the pass stays 0 and no request is in flight.
C3_NoCallWithoutCredential ==
    CredentialUnset =>
        /\ calls = 0
        /\ requests = <<>>
        /\ pc # "api"
        /\ (pc \in {"respond", "button"} /\ prompt # Empty) =>
               (outcome = "MissingCredential" /\ response = KeyRequiredText)

C3_EmptyCredentialAnswered ==
    /\ env["ANTHROPIC_API_KEY"] = Val(Empty)
    /\ pc = "respond"
    /\ outcome = "MissingCredential"
    /\ calls = 0

\* C4 as claimed: when the call or the parsing of its response fails, the
\* pass adds exactly one assistant entry, whose content contains the
\* description of the failure.
C4_EntryDescribesFailure ==
    (pc = "button" /\ outcome = "CompletionFailed") =>
        /\ fault = "none"
        /\ messages = start \o << User(prompt), Assistant(response) >>
        /\ Contains(messages[Len(messages)].content, cause)

\* C4 as amended: when the call or the parsing of its response fails, the
\* Completion Client returns instead of raising, the pass adds exactly one
\* assistant entry, and its content is the fixed text "An error occurred
\* while generating the response.", which does not contain the description
\* of the failure; the description is only in the error shown by the pass.
C4_EntryIsGenericText ==
    (pc = "button" /\ outcome = "CompletionFailed") =>
        /\ fault = "none"
        /\ messages = start \o << User(prompt), Assistant(GenericErrorText) >>
        /\ ~Contains(messages[Len(messages)].content, cause)
        /\ errors = << ErrorPrefix \o cause >>

C4_FailedCallAnswered ==
    /\ pc = "button"
    /\ outcome = "CompletionFailed"
    /\ cause = <<"timeout">>
    /\ Len(start) = 2
    /\ Len(messages) = 4

\* C5: drawing the selector while the current model is not in the allow-list
\* does not crash the pass, and the model becomes a member of the allow-list.
C5_StaleModelFallsBack ==
    [][(pc = "sidebar" /\ ~InList(model_options, model_config.model)) =>
          /\ pc' # "crashed"
          /\ InList(model_options, session_state'["model_config"].model)]_vars

\* C6: drawing the selector with no user change, while the current model m is
\* in the allow-list, pre-selects m and leaves the model equal to m.
C6_SelectorRoundTrip ==
    [][(pc = "sidebar" /\ selected = 0
          /\ InList(model_options, model_config.model)) =>
          /\ pc' = "history"
          /\ model_options[selectbox'.index] = model_config.model
          /\ selectbox'.value = model_config.model
          /\ session_state'["model_config"].model = model_config.model]_vars

C6_SecondOptionKept ==
    /\ pc = "history"
    /\ event = "submit"
    /\ Len(model_options) >= 2
    /\ model_options[2] # model_options[1]
    /\ model_config.model = model_options[2]
    /\ selectbox.index = 2

\* C7: no error is fatal: in a pass in which an error occurs (a missing
\* credential, a failed completion, a model outside the allow-list) nothing
\* escapes main() and the pass does not end crashed.
InvalidSelection ==
    Has("model_config") /\ ~InList(model_options, model_config.model)

C7_NoErrorIsFatal ==
    (InvalidSelection \/ outcome \in {"MissingCredential", "CompletionFailed"})
        => (fault = "none" /\ pc # "crashed")

\* C8: the initializer changes nothing when the session state exists, and
\* when none exists it creates an empty Conversation and ModelSettings
\* filled from the configuration defaults.
ConfiguredMaxTokens ==
    IF env["DEFAULT_MAX_TOKENS"].set /\ IntParses(env["DEFAULT_MAX_TOKENS"].val)
    THEN int(env["DEFAULT_MAX_TOKENS"].val)
    ELSE 1000

C8_InitializerIdempotent ==
    [][pc = "init" =>
          /\ (Has("messages") /\ Has("model_config")) =>
                 session_state' = session_state
          /\ (~Has("messages") /\ ~Has("model_config")) =>
                 /\ DOMAIN session_state' = {"messages", "model_config"}
                 /\ session_state'["messages"] = <<>>
                 /\ session_state'["model_config"] =
                      [model |-> getenv("DEFAULT_MODEL", Opus),
                       temperature |-> 7,
                       max_tokens |-> ConfiguredMaxTokens]]_vars

\* C9: ModelSettings is always valid: the model is in the allow-list, the
\* temperature is within [0, 1] and max_tokens is positive.
C9_SettingsValid ==
    Has("model_config") =>
        /\ InList(model_options, model_config.model)
        /\ model_config.temperature \in 0..10
        /\ model_config.max_tokens > 0

\* C10: the initializer never crashes on the configured max tokens, and
\* takes 1000 when the value is absent or does not parse as an integer.
C10_MaxTokensDefault ==
    [][(pc = "init" /\ ~Has("model_config")) =>
          /\ pc' # "crashed"
          /\ "model_config" \in DOMAIN session_state'
          /\ (~env["DEFAULT_MAX_TOKENS"].set
                \/ ~IntParses(env["DEFAULT_MAX_TOKENS"].val)) =>
                 session_state'["model_config"].max_tokens = 1000]_vars

\* a is an initial part of b, element by element
IsPrefix(a, b) == Len(a) <= Len(b) /\ SubSeq(b, 1, Len(a)) = a

\* C11: a pass that no new submission triggered (a model change, a clear,
\* the re-run after a clear) appends no Message and makes no completion call.
C11_OnlySubmissionsProcessed ==
    event \in {"select", "clear", "rerun"} =>
        /\ pc \notin {"generate", "api", "respond"}
        /\ calls = 0
        /\ outcome = "none"
        /\ Len(messages) <= Len(start)

\* C12 as claimed: in a pass in which clear was requested no Message is
\* rendered or appended and the Completion Client is not invoked.
C12_ClearSkipsMessages ==
    event = "clear" =>
        /\ chat = <<>>
        /\ calls = 0
        /\ outcome = "none"
        /\ Len(messages) <= Len(start)

\* C12 as amended: the clear request is read at the end of the pass, after
\* the message steps: until then the Conversation only grows, by then every
\* Message of it has been rendered; the pass then empties the Conversation,
\* renders nothing more and the re-run starts at once.
C12_ClearAfterMessages ==
    [][clicked =>
          IF pc = "button"
          THEN /\ IsPrefix(start, messages)
               /\ chat = messages
               /\ messages' = <<>>
               /\ chat' = <<>>
               /\ ~clicked'
               /\ pc' = "init"
               /\ event' = "rerun"
          ELSE /\ clicked'
               /\ IsPrefix(messages, messages')]_vars

C12_ClearedAndRerunning ==
    /\ pc = "init"
    /\ event = "rerun"
    /\ Has("messages")
    /\ messages = <<>>
    /\ text_input # Empty

\* C13: a request in flight carries the whole Conversation as it is during
\* the call, role and content of every Message in order, ending with the user
\* Message of the current pass, and the current model, max_tokens and
\* temperature.
C13_RequestCarriesConversation ==
    requests # <<>> =>
        /\ Len(requests) = 1
        /\ pc = "api"
        /\ requests[1].messages = session_state["messages"]
        /\ IsPrefix(start \o << User(prompt) >>, requests[1].messages)
        /\ Len(requests[1].messages) = Len(start) + 1
        /\ prompt = text_input
        /\ requests[1].model = session_state["model_config"].model
        /\ requests[1].max_tokens = session_state["model_config"].max_tokens
        /\ requests[1].temperature = session_state["model_config"].temperature

C13_SecondTurnInFlight ==
    /\ pc = "api"
    /\ Len(requests) = 1
    /\ Len(requests[1].messages) = 3
    /\ requests[1].messages[3] = User(<<"bye">>)

\* C14: no step of the Completion Client changes the session state, whatever
\* the outcome.
C14_ClientLeavesState ==
    [][(pc = "generate" \/ pc = "api") =>
          /\ session_state' = session_state
          /\ (pc' = "api" \/ pc' = "respond")]_vars

C14_ReturnedAllOutcomes ==
    /\ pc = "respond"
    /\ outcome = "MissingCredential"
    /\ Len(start) = 2
    /\ messages = start \o << User(prompt) >>

\* C15: in a pass triggered by a model change the new model is in the
\* settings from the selector on, a completion request of that pass names
\* it, and it is still the model when the pass ends.
C15_ModelChangeApplied ==
    (event = "select" /\ pc \in {"history", "input", "generate", "api",
                                  "respond", "button", "idle"}) =>
        /\ session_state["model_config"].model = model_options[selectbox.at]
        /\ selectbox.value = model_options[selectbox.at]
        /\ \A i \in 1..Len(requests) :
               requests[i].model = model_options[selectbox.at]

C15_NewModelRequested ==
    /\ event = "select"
    /\ pc = "api"
    /\ selectbox.at # selectbox.index
    /\ model_options[selectbox.at] # model_options[selectbox.index]
    /\ requests[1].model = model_options[selectbox.at]

\* C16: every step either extends the Conversation (the old one stays an
\* initial part, element by element) or, at the clear button, empties it.
C16_AppendOrClear ==
    [][\/ IsPrefix(messages, messages')
       \/ (pc = "button" /\ clicked /\ messages' = <<>>)]_vars

C16_ExtendedByPass ==
    /\ pc = "idle"
    /\ event = "submit"
    /\ Len(start) = 2
    /\ Len(messages) = 4
    /\ IsPrefix(start, messages)

\* C17: once the settings exist, no step changes temperature or max_tokens,
\* and the model changes only in the selector, on a user's pick.
C17_OnlyModelChanges ==
    [][Has("model_config") =>
          /\ "model_config" \in DOMAIN session_state'
          /\ session_state'["model_config"].temperature
                = model_config.temperature
          /\ session_state'["model_config"].max_tokens
                = model_config.max_tokens
          /\ session_state'["model_config"].model # model_config.model =>
                (pc = "sidebar" /\ selected # 0)]_vars

C17_ModelChangedRestKept ==
    /\ pc = "idle"
    /\ event = "submit"
    /\ model_config.model # getenv("DEFAULT_MODEL", Opus)
    /\ model_config.temperature = 7
    /\ model_config.max_tokens = 12

\* C18: outside the completion call the Conversation has even length and
\* alternates user, assistant from the first Message on; during the call,
\* also a failing one, it is such a Conversation plus one user Message.
Alternates(m) ==
    \A i \in 1..Len(m) :
        m[i].role = IF i % 2 = 1 THEN "user" ELSE "assistant"

C18_PairedOutsideCall ==
    /\ Alternates(messages)
    /\ IF pc \in {"generate", "api", "respond"}
       THEN Len(messages) % 2 = 1
       ELSE Len(messages) % 2 = 0

C18_UnpairedDuringFailedCall ==
    /\ pc = "respond"
    /\ outcome = "CompletionFailed"
    /\ Len(messages) = 3
    /\ messages[3].role = "user"

====
